---- MODULE Spec2Model ----
(***************************************************************************)
(* A model of ModelAccessWrapper (lib/model-access-wrapper.js): the        *)
(* permission-enforcing wrapper around a unimodel model.  The documents    *)
(* are flat objects over the fields of the Animal schema of the test       *)
(* fixtures; a permission set is a list of {match, grant} rules; one       *)
(* action is one call of a public method of the wrapper.                   *)
(***************************************************************************)
EXTENDS Integers, Sequences, FiniteSets, TLC

VARIABLES
    wrapper,   \* the wrapper: its field classification, its options, its hooks
    store,     \* the documents the model holds, in the store's order
    last,      \* the last call: its parameters, the store before it, its outcome
    calls,     \* the number of calls made so far
    inflight   \* the call that is between two of its calls of the store

vars == <<wrapper, store, last, calls, inflight>>

\* The number of calls a behaviour makes.
MaxCalls == 1

\* The calls of other callers that run while a call is between two of its
\* calls of the store.
MaxOthers == 1

----------------------------------------------------------------------------
(* The schema and the values *)

\* A field a data object does not have.
Absent == "-"

\* The fields of the Animal schema.
Fields == {"id", "animalType", "ssn", "coolness", "favNumber"}

\* Animal: id is the key, animalType and coolness have a default,
\* ssn is private, coolness and favNumber are protected.
Schema ==
    [f \in Fields |->
        CASE f = "id"         -> [key |-> TRUE,  private |-> FALSE, protected |-> FALSE, default |-> Absent]
          [] f = "animalType" -> [key |-> FALSE, private |-> FALSE, protected |-> FALSE, default |-> "dog"]
          [] f = "ssn"        -> [key |-> FALSE, private |-> TRUE,  protected |-> FALSE, default |-> Absent]
          [] f = "coolness"   -> [key |-> FALSE, private |-> FALSE, protected |-> TRUE,  default |-> "4"]
          [] f = "favNumber"  -> [key |-> FALSE, private |-> FALSE, protected |-> TRUE,  default |-> Absent]]

\* An object that has no field.
EmptyObj == [f \in Fields |-> Absent]

\* The object with one field.
Obj1(f, v) == [g \in Fields |-> IF g = f THEN v ELSE Absent]

\* The fields an object has.
FieldsOf(obj) == {f \in Fields : obj[f] # Absent}

\* objtools.merge(a, b): the fields of b are copied onto a.
merge(a, b) == [f \in Fields |-> IF b[f] # Absent THEN b[f] ELSE a[f]]

\* ObjectMask.filterObject: the object cut down to the fields of the mask.
filterObject(mask, obj) == [f \in Fields |-> IF f \in mask THEN obj[f] ELSE Absent]

\* schema.normalize as the model applies it to a document it creates or
\* saves: a missing field that has a default gets the default.
Normalize(obj) ==
    [f \in Fields |-> IF obj[f] = Absent THEN Schema[f].default ELSE obj[f]]

\* model.create(): a new document, which holds the schema defaults.
CreateDefault == Normalize(EmptyObj)

----------------------------------------------------------------------------
(* The constructor *)

keyFields == {f \in Fields : Schema[f].key}

\* A classification whose public mask is not cut down by the private mask.
ClassificationPublicAll ==
    [hasPrivateFields   |-> \E f \in Fields : Schema[f].private,
     hasProtectedFields |-> \E f \in Fields : Schema[f].protected,
     privateMask        |-> {f \in Fields : Schema[f].private},
     protectedMask      |-> {f \in Fields : Schema[f].protected},
     protectedFields    |-> {f \in Fields : Schema[f].protected},
     publicMask         |-> Fields,
     publicPrivateMask  |-> Fields]

\* traverseSchema of the constructor: the private and the protected fields,
\* and the public mask (everything minus the private mask).
Classification ==
    [hasPrivateFields   |-> \E f \in Fields : Schema[f].private,
     hasProtectedFields |-> \E f \in Fields : Schema[f].protected,
     privateMask        |-> {f \in Fields : Schema[f].private},
     protectedMask      |-> {f \in Fields : Schema[f].protected},
     protectedFields    |-> {f \in Fields : Schema[f].protected},
     publicMask         |-> Fields \ {f \in Fields : Schema[f].private},
     publicPrivateMask  |-> Fields]

\* The events of the hooks the operations trigger before they act.
HookNames ==
    {"pre-get", "pre-query", "pre-count", "pre-aggregate", "pre-put",
     "pre-upsert", "pre-update", "pre-remove"}

\* new ModelAccessWrapper(options), and the hooks registered on it with
\* wrapper.hook(event, fn): the classification of the fields, the option
\* allowNoPermissions, and the events that have a hook that rejects.
Construct(allowNoPermissions, hooks) ==
    Classification @@ [allowNoPermissions |-> allowNoPermissions, hooks |-> hooks,
                       serializeFails |-> {}]

\* new ModelAccessWrapper({ model, serialize }) with a serialize function
\* that throws for the documents that have these keys.
ConstructSerialize(failing) ==
    [Construct(FALSE, {}) EXCEPT !.serializeFails = failing]

----------------------------------------------------------------------------
(* The permissions (flexperm), as the wrapper uses them *)

\* The capabilities a grant can hold.
Caps == {"read", "query", "count", "aggregate", "write", "delete", "overwriteProtected"}

\* A rule of a permission set: the grant applies to the objects that have
\* the values of match.
Rule(match, caps, readMask, writeMask) ==
    [match |-> match, caps |-> caps, readMask |-> readMask, writeMask |-> writeMask,
     aggregateMask |-> {}]

\* grant: true
RuleTrue(match) == [Rule(match, Caps, Fields, Fields) EXCEPT !.aggregateMask = Fields]

\* The permission sets of the test fixtures, adapted to the fields of the
\* model (singleDoc matches on animalType), and one that reads every field
\* and writes the key only.
PermissionSets ==
    [everything |-> {RuleTrue(EmptyObj)},
     almostEverything |->
        {Rule(EmptyObj, {"read", "query", "aggregate", "write"}, Fields, Fields)},
     partialWrite |->
        {Rule(EmptyObj, {"read", "query", "aggregate", "write"},
              {"id", "animalType"}, {"id", "animalType", "favNumber"})},
     partialWriteOverProtected |->
        {Rule(EmptyObj, {"read", "query", "aggregate", "write", "overwriteProtected"},
              {"id", "animalType"}, {"id", "animalType", "favNumber"})},
     singleDoc |->
        {RuleTrue(Obj1("animalType", "cat")),
         Rule(EmptyObj, {"query"}, Fields, {})},
     noRead |-> {Rule(EmptyObj, {}, {}, {})},
     writeIdOnly |->
        {Rule(EmptyObj, {"read", "query", "count", "aggregate", "write", "overwriteProtected"},
              Fields, {"id"})}]

PermNames == DOMAIN PermissionSets

\* params.permissions of a call that supplies no permissions.
NoPermissions == "none"

\* if (params.permissions)
HasPermissions(p) == p.permissions # NoPermissions

\* A rule's match applies to an object that has each value of the match.
RuleMatches(rule, obj) ==
    \A f \in Fields : rule.match[f] # Absent => obj[f] = rule.match[f]

\* PermissionSet.getTargetGrant(target, obj): the grants of the rules that
\* match obj, combined.
getTargetGrant(perms, obj) ==
    LET rules == {r \in PermissionSets[perms] : RuleMatches(r, obj)}
    IN  [caps      |-> UNION {r.caps : r \in rules},
         readMask  |-> UNION {r.readMask : r \in rules},
         writeMask |-> UNION {r.writeMask : r \in rules},
         aggregateMask |-> UNION {r.aggregateMask : r \in rules}]

\* grant.check(capability) does not throw.
has(grant, cap) == cap \in grant.caps

\* grant.check(fields, 'writeMask.') does not throw.
checkWriteMask(grant, fields) == fields \subseteq grant.writeMask

\* this.globalPermissions: one rule for target 'global' whose masks are the
\* public mask.
globalGrant == [caps |-> {"global"}, readMask |-> wrapper.publicMask,
                writeMask |-> wrapper.publicMask, aggregateMask |-> {}]

\* permissions.checkExecuteQuery(target, query, params, capability) does
\* not throw: the grant of the query's exact matches has the capability and
\* its readMask covers the fields the query inspects.
checkExecuteQuery(perms, query, cap) ==
    LET grant == getTargetGrant(perms, query)
    IN  has(grant, cap) /\ FieldsOf(query) \subseteq grant.readMask

\* this.globalPermissions.checkExecuteQuery('global', query, params, 'global')
\* does not throw.
globalCheckExecuteQuery(query) == FieldsOf(query) \subseteq globalGrant.readMask

\* permissions.getTargetQueryFields(): the fields the rules match on.
getTargetQueryFields(perms) ==
    UNION {FieldsOf(r.match) : r \in PermissionSets[perms]}

\* The function createFilterByMask(target, 'read', 'readMask') returns:
\* nothing without the read capability, else the data cut down to the
\* readMask of the grant the data resolves.
\* filterPermissionsFunc that does not cut the data down to the readMask.
filterPermissionsFuncUnmasked(perms, data) ==
    LET grant == getTargetGrant(perms, data)
    IN  IF ~has(grant, "read") THEN [null |-> TRUE, data |-> EmptyObj]
        ELSE [null |-> FALSE, data |-> data]

filterPermissionsFunc(perms, data) ==
    LET grant == getTargetGrant(perms, data)
    IN  IF ~has(grant, "read") THEN [null |-> TRUE, data |-> EmptyObj]
        ELSE [null |-> FALSE, data |-> filterObject(grant.readMask, data)]

----------------------------------------------------------------------------
(* The store (the unimodel model) *)

\* A query is an object of exact matches; a document matches it when it has
\* each of its values.
QueryMatches(query, doc) ==
    \A f \in Fields : query[f] # Absent => doc[f] = query[f]

\* The positions of the documents that match, in the store's order.
RECURSIVE find(_, _, _)
find(st, query, i) ==
    IF i > Len(st) THEN <<>>
    ELSE IF QueryMatches(query, st[i]) THEN <<i>> \o find(st, query, i + 1)
    ELSE find(st, query, i + 1)

\* An update is an object of the values of its $set; update.apply(data).
applyUpdate(update, data) == merge(data, update)

\* update.getUpdatedFields()
getUpdatedFields(update) == FieldsOf(update)

\* The outcome of a call: its code, the store it leaves and what it returns
\* (a sequence of results; a result is null or holds data), and the calls
\* it made of the store to write (none yet).
Outcome(code, st, out) == [code |-> code, store |-> st, out |-> out, via |-> <<>>]

\* The outcome of a call that went through these calls of the store.
Via(outcome, storeCalls) == [outcome EXCEPT !.via = storeCalls]

Result(data) == [null |-> FALSE, data |-> data]

NullResult == [null |-> TRUE, data |-> EmptyObj]

\* model.findOne(keys): the position of the first document that matches,
\* 0 when the store rejects with NOT_FOUND.
findOne(st, query) ==
    LET found == find(st, query, 1)
    IN  IF found = <<>> THEN 0 ELSE found[1]

\* doc.save() of a document schema validation accepts.
Valid(doc) == \A f \in keyFields : doc[f] # Absent

----------------------------------------------------------------------------
(* put *)

\* Update.createFromDiff(doc.data, data) and getUpdatedFields(): the fields
\* whose value differs between the two objects, a field that only one of
\* them has included.
createFromDiff(old, new) == {f \in Fields : old[f] # new[f]}

\* _checkDiffPermissions that checks the write capability and not the
\* writeMask.
_checkDiffPermissionsNoMask(perms, docData, data, overwriteProtected) ==
    LET grant == getTargetGrant(perms, data)
    IN  IF overwriteProtected /\ ~has(grant, "overwriteProtected") THEN "ACCESS_DENIED"
        ELSE IF ~overwriteProtected /\ wrapper.hasProtectedFields
                /\ (\E f \in wrapper.protectedFields : data[f] # Absent)
             THEN "INVALID_ARGUMENT"
        ELSE IF ~has(grant, "write") THEN "ACCESS_DENIED"
        ELSE "OK"

\* _checkDiffPermissions(permissions, doc, data, overwriteProtected): the
\* code of the error it throws, "OK" when it returns.
_checkDiffPermissions(perms, docData, data, overwriteProtected) ==
    LET grant  == getTargetGrant(perms, data)
        fields == createFromDiff(docData, data)
        toCheck == IF ~overwriteProtected /\ wrapper.hasProtectedFields
                   THEN fields \ wrapper.protectedFields
                   ELSE fields
    IN  IF overwriteProtected /\ ~has(grant, "overwriteProtected") THEN "ACCESS_DENIED"
        ELSE IF ~overwriteProtected /\ wrapper.hasProtectedFields
                /\ (\E f \in wrapper.protectedFields : data[f] # Absent)
             THEN "INVALID_ARGUMENT"
        ELSE IF ~has(grant, "write") THEN "ACCESS_DENIED"
        ELSE IF ~checkWriteMask(grant, toCheck) THEN "ACCESS_DENIED"
        ELSE "OK"

\* put that leaves the protected fields in the data.
putKeepProtected(p) == p.data

\* The data of put once the protected fields are removed from it.
putStripProtected(p) ==
    IF wrapper.hasProtectedFields /\ ~p.overwriteProtected
    THEN filterObject(wrapper.publicPrivateMask \ wrapper.protectedMask, p.data)
    ELSE p.data

\* putFound that does not copy the existing protected fields onto the
\* data.
putFoundNoProtectedMerge(st, p, data, i) ==
    LET check == IF HasPermissions(p)
                 THEN _checkDiffPermissions(p.permissions, st[i], data, p.overwriteProtected)
                 ELSE "OK"
        withPrivate ==
            IF wrapper.hasPrivateFields /\ ~p.allowPrivateFields
            THEN merge(data, filterObject(wrapper.privateMask, st[i]))
            ELSE data
        saved == Normalize(withPrivate)
    IN  IF check # "OK" THEN Outcome(check, st, <<>>)
        ELSE Outcome("OK", [st EXCEPT ![i] = saved],
                     <<Result(filterObject(keyFields, saved))>>)

\* put, when findOne found the document at position i.
putFound(st, p, data, i) ==
    LET check == IF HasPermissions(p)
                 THEN _checkDiffPermissions(p.permissions, st[i], data, p.overwriteProtected)
                 ELSE "OK"
        withPrivate ==
            IF wrapper.hasPrivateFields /\ ~p.allowPrivateFields
            THEN merge(data, filterObject(wrapper.privateMask, st[i]))
            ELSE data
        withProtected ==
            IF wrapper.hasProtectedFields /\ ~p.overwriteProtected
            THEN merge(withPrivate, filterObject(wrapper.protectedMask, st[i]))
            ELSE withPrivate
        saved == Normalize(withProtected)
    IN  IF check # "OK" THEN Outcome(check, st, <<>>)
        ELSE Outcome("OK", [st EXCEPT ![i] = saved],
                     <<Result(filterObject(keyFields, saved))>>)

\* putNotFound that stores the data as given, without the defaults of the
\* schema.
putNotFoundNoDefaults(st, p, data) ==
    LET check == IF HasPermissions(p)
                 THEN _checkDiffPermissions(p.permissions, CreateDefault, data,
                                            p.overwriteProtected)
                 ELSE "OK"
    IN  IF check # "OK" THEN Outcome(check, st, <<>>)
        ELSE Outcome("OK", Append(st, data),
                     <<Result(filterObject(keyFields, data))>>)

\* put, when findOne rejected with NOT_FOUND.
putNotFound(st, p, data) ==
    LET check == IF HasPermissions(p)
                 THEN _checkDiffPermissions(p.permissions, CreateDefault, data,
                                            p.overwriteProtected)
                 ELSE "OK"
        saved == Normalize(data)
    IN  IF check # "OK" THEN Outcome(check, st, <<>>)
        ELSE Outcome("OK", Append(st, saved),
                     <<Result(filterObject(keyFields, saved))>>)

\* put without the check of the data against the global writeMask.
putNoGlobalCheck(st, p) ==
    LET data == putStripProtected(p)
        keys == filterObject(keyFields, data)
        i    == findOne(st, keys)
    IN  IF \E f \in keyFields : data[f] = Absent
        THEN Outcome("INVALID_ARGUMENT", st, <<>>)
        ELSE IF i # 0 THEN putFound(st, p, data, i)
        ELSE putNotFound(st, p, data)

\* put(params)
put(st, p) ==
    LET data == putStripProtected(p)
        keys == filterObject(keyFields, data)
        i    == findOne(st, keys)
    IN  IF wrapper.hasPrivateFields /\ ~p.allowPrivateFields
           /\ ~(FieldsOf(data) \subseteq globalGrant.writeMask)
        THEN Outcome("ACCESS_DENIED", st, <<>>)
        ELSE IF \E f \in keyFields : data[f] = Absent
        THEN Outcome("INVALID_ARGUMENT", st, <<>>)
        ELSE IF i # 0 THEN putFound(st, p, data, i)
        ELSE putNotFound(st, p, data)

\* put up to its findOne: the code of the error it throws before it, "OK"
\* when it calls findOne.
putBegin(st, p) ==
    LET data == putStripProtected(p)
    IN  IF wrapper.hasPrivateFields /\ ~p.allowPrivateFields
           /\ ~(FieldsOf(data) \subseteq globalGrant.writeMask)
        THEN Outcome("ACCESS_DENIED", st, <<>>)
        ELSE IF \E f \in keyFields : data[f] = Absent
        THEN Outcome("INVALID_ARGUMENT", st, <<>>)
        ELSE Outcome("OK", st, <<>>)

\* doc.save(): the store writes the document over the one that has its
\* keys, and adds it when there is none.
saveDoc(st, doc) ==
    LET i == findOne(st, filterObject(keyFields, doc))
    IN  IF i = 0 THEN Append(st, doc) ELSE [st EXCEPT ![i] = doc]

\* put from the answer of findOne on, which fails when the document is no
\* longer as findOne read it.
putSaveDetectsChange(st, p, data, found, doc) ==
    LET i == findOne(st, filterObject(keyFields, data))
        check == IF HasPermissions(p)
                 THEN _checkDiffPermissions(p.permissions,
                                            IF found THEN doc ELSE CreateDefault,
                                            data, p.overwriteProtected)
                 ELSE "OK"
        withPrivate ==
            IF found /\ wrapper.hasPrivateFields /\ ~p.allowPrivateFields
            THEN merge(data, filterObject(wrapper.privateMask, doc))
            ELSE data
        withProtected ==
            IF found /\ wrapper.hasProtectedFields /\ ~p.overwriteProtected
            THEN merge(withPrivate, filterObject(wrapper.protectedMask, doc))
            ELSE withPrivate
        saved == Normalize(withProtected)
    IN  IF check # "OK" THEN Outcome(check, st, <<>>)
        ELSE IF (found /\ (i = 0 \/ st[i] # doc)) \/ (~found /\ i # 0)
        THEN Outcome("CONFLICT", st, <<>>)
        ELSE Outcome("OK", saveDoc(st, saved),
                     <<Result(filterObject(keyFields, saved))>>)

\* put from the answer of findOne on: the document findOne read (found) or
\* its NOT_FOUND, the check of the diff, the merge of the private and the
\* protected fields of the document as read, and doc.save() on the store as
\* it is by then.
putSave(st, p, data, found, doc) ==
    LET check == IF HasPermissions(p)
                 THEN _checkDiffPermissions(p.permissions,
                                            IF found THEN doc ELSE CreateDefault,
                                            data, p.overwriteProtected)
                 ELSE "OK"
        withPrivate ==
            IF found /\ wrapper.hasPrivateFields /\ ~p.allowPrivateFields
            THEN merge(data, filterObject(wrapper.privateMask, doc))
            ELSE data
        withProtected ==
            IF found /\ wrapper.hasProtectedFields /\ ~p.overwriteProtected
            THEN merge(withPrivate, filterObject(wrapper.protectedMask, doc))
            ELSE withPrivate
        saved == Normalize(withProtected)
    IN  IF check # "OK" THEN Outcome(check, st, <<>>)
        ELSE Outcome("OK", saveDoc(st, saved),
                     <<Result(filterObject(keyFields, saved))>>)

----------------------------------------------------------------------------
(* get, query, stream *)

\* _preprocessParams: the fields fetched from the store are the requested
\* fields and the fields the permissions match on.
requestFields(p) ==
    p.fields \cup p.extraFields
        \cup (IF HasPermissions(p) THEN getTargetQueryFields(p.permissions) ELSE {})

\* _preprocessParams that renames fields to filterFields also when
\* params.filterFields is there already.
_preprocessParamsFieldsRenameAlways(p) ==
    LET p1 == IF ~p.hasRequestFields /\ p.hasFields
              THEN [p EXCEPT !.requestFields = requestFields(p), !.hasRequestFields = TRUE]
              ELSE p
        p2 == IF p1.hasFields
              THEN [p1 EXCEPT !.filterFields = p1.fields, !.hasFilterFields = TRUE]
              ELSE p1
    IN  IF p2.hasRequestFields
        THEN [p2 EXCEPT !.fields = p2.requestFields, !.hasFields = TRUE]
        ELSE p2

\* _preprocessParams, the part on the lists of fields: the params as the
\* call leaves them (it changes the params object it is given).
_preprocessParamsFields(p) ==
    LET p1 == IF ~p.hasRequestFields /\ p.hasFields
              THEN [p EXCEPT !.requestFields = requestFields(p), !.hasRequestFields = TRUE]
              ELSE p
        p2 == IF p1.hasFields /\ ~p1.hasFilterFields
              THEN [p1 EXCEPT !.filterFields = p1.fields, !.hasFilterFields = TRUE]
              ELSE p1
    IN  IF p2.hasRequestFields
        THEN [p2 EXCEPT !.fields = p2.requestFields, !.hasFields = TRUE]
        ELSE p2

\* What the store hands over of a document: all of it, or the fields asked.
fetch(p, doc) ==
    LET pp == _preprocessParamsFields(p)
    IN  IF pp.hasFields THEN filterObject(pp.fields, doc) ELSE doc

\* params.filterFieldsFunc: the requested fields of the data, all of the
\* data when the call has no filterFields.
filterFieldsFunc(p, data) ==
    LET pp == _preprocessParamsFields(p)
    IN  IF pp.hasFilterFields THEN filterObject(pp.filterFields, data) ELSE data

\* this.serialize(doc, params) returns: options.serialize does not throw
\* for the document (the default serialize never throws).
serialize(doc) == doc["id"] \notin wrapper.serializeFails

\* prepareResultObject that does not normalize the document against the
\* public schema.
prepareResultObjectNoPublic(doc, p) ==
    LET permitted == IF HasPermissions(p) THEN filterPermissionsFunc(p.permissions, doc)
                     ELSE Result(doc)
        data == filterFieldsFunc(p, permitted.data)
    IN  IF ~serialize(doc) THEN [code |-> "INTERNAL_ERROR", result |-> NullResult]
        ELSE IF permitted.null THEN [code |-> "ACCESS_DENIED", result |-> NullResult]
        ELSE [code |-> "OK", result |-> Result(data)]

\* prepareResultObject(doc, params): the code of the error it throws ("OK"
\* when it resolves) and the result.
prepareResultObject(doc, p) ==
    LET public == IF ~p.allowPrivateFields /\ wrapper.hasPrivateFields
                  THEN filterObject(wrapper.publicMask, doc)
                  ELSE doc
        permitted == IF HasPermissions(p) THEN filterPermissionsFunc(p.permissions, public)
                     ELSE Result(public)
        data == filterFieldsFunc(p, permitted.data)
    IN  IF ~serialize(doc) THEN [code |-> "INTERNAL_ERROR", result |-> NullResult]
        ELSE IF permitted.null THEN [code |-> "ACCESS_DENIED", result |-> NullResult]
        ELSE [code |-> "OK", result |-> Result(data)]

\* get(params)
get(st, p) ==
    LET i == findOne(st, p.keys)
        prepared == prepareResultObject(fetch(p, st[i]), p)
    IN  IF \E f \in keyFields : p.keys[f] = Absent
        THEN Outcome("INVALID_ARGUMENT", st, <<>>)
        ELSE IF i = 0 THEN Outcome("NOT_FOUND", st, <<>>)
        ELSE IF prepared.code # "OK" THEN Outcome(prepared.code, st, <<>>)
        ELSE Outcome("OK", st, <<prepared.result>>)

\* The checks of the query that query and stream make before they touch the
\* store, and that update, upsert and remove make when the call has
\* permissions: checkExecuteQuery of the permissions when there are
\* permissions, and of the global permissions.
queryAllowed(p) ==
    /\ HasPermissions(p) => checkExecuteQuery(p.permissions, p.query, "query")
    /\ (~p.allowPrivateFields /\ wrapper.hasPrivateFields)
            => globalCheckExecuteQuery(p.query)

\* prepareAll that returns the entries in the reverse of the store's order.
prepareAllReversed(st, found, p) ==
    [k \in 1..Len(found) |->
        prepareResultObject(fetch(p, st[found[Len(found) + 1 - k]]), p).result]

\* pasync.mapSeries(docs, prepareResultObject) with ACCESS_DENIED caught:
\* one entry per document, null for a document that was denied.
prepareAll(st, found, p) ==
    [k \in 1..Len(found) |-> prepareResultObject(fetch(p, st[found[k]]), p).result]

\* The place among the documents found of the first whose preparation
\* throws an error that is not ACCESS_DENIED, 0 when there is none, and the
\* code of that error.
firstError(st, found, p) ==
    LET failing == {k \in 1..Len(found) :
                      prepareResultObject(fetch(p, st[found[k]]), p).code
                          \notin {"OK", "ACCESS_DENIED"}}
    IN  IF failing = {} THEN 0
        ELSE CHOOSE k \in failing : \A j \in failing : k <= j

errorCode(st, found, p, k) == prepareResultObject(fetch(p, st[found[k]]), p).code

\* query that fails only on the checks of the query.
queryNoFilteredCheck(st, p) ==
    LET found == find(st, p.query, 1)
        failed == firstError(st, found, p)
    IN  IF ~queryAllowed(p) THEN Outcome("ACCESS_DENIED", st, <<>>)
        ELSE IF failed # 0 THEN Outcome(errorCode(st, found, p, failed), st, <<>>)
        ELSE Outcome("OK", st, prepareAll(st, found, p))

\* query(params)
query(st, p) ==
    LET found   == find(st, p.query, 1)
        results == prepareAll(st, found, p)
        numFilteredDocs == Cardinality({k \in 1..Len(found) : results[k].null})
        failed  == firstError(st, found, p)
    IN  IF ~queryAllowed(p) THEN Outcome("ACCESS_DENIED", st, <<>>)
        ELSE IF failed # 0 THEN Outcome(errorCode(st, found, p, failed), st, <<>>)
        ELSE IF numFilteredDocs >= Len(found) /\ Len(found) # 0
        THEN Outcome("ACCESS_DENIED", st, <<>>)
        ELSE Outcome("OK", st, results)

\* stream that applies the whole-result check of query: it fails when
\* every document found was filtered out.
streamAllFilteredCheck(st, p) ==
    LET found   == find(st, p.query, 1)
        results == prepareAll(st, found, p)
        failed  == firstError(st, found, p)
    IN  IF ~queryAllowed(p) THEN Outcome("ACCESS_DENIED", st, <<>>)
        ELSE IF failed # 0
        THEN Outcome(errorCode(st, found, p, failed), st, SubSeq(results, 1, failed - 1))
        ELSE IF found # <<>> /\ \A k \in 1..Len(found) : results[k].null
        THEN Outcome("ACCESS_DENIED", st, <<>>)
        ELSE Outcome("OK", st, results)

\* stream(params): the results of the stream, read to its end or to the
\* error that ends it.
stream(st, p) ==
    LET found   == find(st, p.query, 1)
        results == prepareAll(st, found, p)
        failed  == firstError(st, found, p)
    IN  IF ~queryAllowed(p) THEN Outcome("ACCESS_DENIED", st, <<>>)
        ELSE IF failed # 0
        THEN Outcome(errorCode(st, found, p, failed), st, SubSeq(results, 1, failed - 1))
        ELSE Outcome("OK", st, results)

\* count(params): the number of documents the store matches.
count(st, p) ==
    IF HasPermissions(p) /\ ~checkExecuteQuery(p.permissions, p.query, "count")
    THEN Outcome("ACCESS_DENIED", st, <<>>)
    ELSE IF ~p.allowPrivateFields /\ wrapper.hasPrivateFields
            /\ ~globalCheckExecuteQuery(p.query)
    THEN Outcome("ACCESS_DENIED", st, <<>>)
    ELSE Outcome("OK", st, <<Len(find(st, p.query, 1))>>)

\* model.aggregateMulti(query, aggregates) of an aggregate that groups by
\* one field: one entry per value of the field among the documents that
\* match, in the store's order.
modelAggregateMulti(st, qry, groupBy) ==
    LET found == find(st, qry, 1)
        first == {k \in 1..Len(found) :
                    \A j \in 1..(k - 1) : st[found[j]][groupBy] # st[found[k]][groupBy]}
        keep(k) == k \in first
        firsts == SelectSeq([k \in 1..Len(found) |-> k], keep)
    IN  [n \in 1..Len(firsts) |-> Result(Obj1(groupBy, st[found[firsts[n]]][groupBy]))]

\* aggregateMulti(params): the aggregate groups by the field
\* params.groupBy, which is the field the aggregate accesses.
aggregateMulti(st, p) ==
    LET accessedFields == {p.groupBy}
        grant == getTargetGrant(p.permissions, p.query)
    IN  IF HasPermissions(p)
           /\ ~(checkExecuteQuery(p.permissions, p.query, "query")
                /\ checkExecuteQuery(p.permissions, p.query, "aggregate"))
        THEN Outcome("ACCESS_DENIED", st, <<>>)
        ELSE IF wrapper.hasPrivateFields /\ ~p.allowPrivateFields
                /\ ~globalCheckExecuteQuery(p.query)
        THEN Outcome("ACCESS_DENIED", st, <<>>)
        ELSE IF HasPermissions(p)
                /\ \E f \in accessedFields :
                      f \notin grant.readMask /\ f \notin grant.aggregateMask
        THEN Outcome("ACCESS_DENIED", st, <<>>)
        ELSE Outcome("OK", st, modelAggregateMulti(st, p.query, p.groupBy))

----------------------------------------------------------------------------
(* update, upsert, remove *)

\* A check of the protected fields that finds none in the update.
containsProtectedIgnored(p) == FALSE

\* The update touches a protected field and overwriteProtected is not set.
containsProtected(p) ==
    /\ wrapper.hasProtectedFields /\ ~p.overwriteProtected
    /\ \E f \in wrapper.protectedFields : f \in getUpdatedFields(p.update)

\* The global write check of update and upsert on the exact matches.
globalWriteCheck(p) ==
    (wrapper.hasPrivateFields /\ ~p.allowPrivateFields)
        => checkWriteMask(globalGrant, FieldsOf(p.query))

\* model.update(query, update): the store applies the update to every
\* document that matches.
modelUpdate(st, qry, upd) ==
    [k \in 1..Len(st) |->
        IF QueryMatches(qry, st[k]) THEN Normalize(applyUpdate(upd, st[k])) ELSE st[k]]

\* updateEach that passes over a document that fails its check and goes on
\* with the next.
RECURSIVE updateEachSkipping(_, _, _, _)
updateEachSkipping(st, found, k, p) ==
    IF k > Len(found) THEN Outcome("OK", st, <<>>)
    ELSE LET i     == found[k]
             grant == getTargetGrant(p.permissions, st[i])
             saved == Normalize(applyUpdate(p.update, st[i]))
             rest  == IF has(grant, "write")
                         /\ checkWriteMask(grant, getUpdatedFields(p.update))
                      THEN updateEachSkipping([st EXCEPT ![i] = saved], found, k + 1, p)
                      ELSE updateEachSkipping(st, found, k + 1, p)
         IN  IF has(grant, "write") /\ checkWriteMask(grant, getUpdatedFields(p.update))
             THEN rest
             ELSE Outcome("ACCESS_DENIED", rest.store, <<>>)

\* The loop of _updateLoop and _upsertLoop over the documents found, from
\* the k-th on: each document is checked against the grant of its own
\* data, updated and saved; the first error ends the loop.
RECURSIVE updateEach(_, _, _, _)
updateEach(st, found, k, p) ==
    IF k > Len(found) THEN Outcome("OK", st, <<>>)
    ELSE LET i     == found[k]
             grant == getTargetGrant(p.permissions, st[i])
             saved == Normalize(applyUpdate(p.update, st[i]))
         IN  IF ~has(grant, "write") THEN Outcome("ACCESS_DENIED", st, <<>>)
             ELSE IF ~checkWriteMask(grant, getUpdatedFields(p.update))
             THEN Outcome("ACCESS_DENIED", st, <<>>)
             ELSE updateEach([st EXCEPT ![i] = saved], found, k + 1, p)

\* _updateLoop that saves the update of every document without a check.
_updateLoopUnchecked(st, p) ==
    Outcome("OK", modelUpdate(st, p.query, p.update), <<>>)

\* _updateLoop(query, update, permissions, params)
_updateLoop(st, p) ==
    Via(updateEach(st, find(st, p.query, 1), 1, p), <<"model.findStream">>)

\* update(params)
update(st, p) ==
    LET grant == getTargetGrant(p.permissions, p.query)
        bulk  == /\ has(grant, "write")
                 /\ checkWriteMask(grant, getUpdatedFields(p.update))
                 /\ globalWriteCheck(p)
    IN  IF containsProtected(p) THEN Outcome("INVALID_ARGUMENT", st, <<>>)
        ELSE IF ~HasPermissions(p)
        THEN Via(Outcome("OK", modelUpdate(st, p.query, p.update), <<>>), <<"model.update">>)
        ELSE IF ~queryAllowed(p) THEN Outcome("ACCESS_DENIED", st, <<>>)
        ELSE IF p.overwriteProtected /\ ~has(grant, "overwriteProtected")
        THEN Outcome("ACCESS_DENIED", st, <<>>)
        ELSE IF ~bulk THEN _updateLoop(st, p)
        ELSE Via(Outcome("OK", modelUpdate(st, p.query, p.update), <<>>), <<"model.update">>)

\* The document an upsert inserts: the exact matches of the query with the
\* update applied.
dataToInsert(p) == applyUpdate(p.update, p.query)

\* doc.save() of a new document: schema validation rejects a document
\* without its key.
insert(st, data) ==
    IF Valid(Normalize(data)) THEN Outcome("OK", Append(st, Normalize(data)), <<>>)
    ELSE Outcome("VALIDATION_ERROR", st, <<>>)

\* model.upsert(query, update): the store updates the documents that match,
\* or inserts one when none does.
modelUpsert(st, p) ==
    Via(IF findOne(st, p.query) # 0
        THEN Outcome("OK", modelUpdate(st, p.query, p.update), <<>>)
        ELSE insert(st, dataToInsert(p)),
        <<"model.upsert">>)

\* _upsertLoop that inserts the new document without a check of the grant.
_upsertLoopInsertUnchecked(st, p) ==
    IF findOne(st, p.query) # 0
    THEN Via(updateEach(st, find(st, p.query, 1), 1, p),
             <<"model.findOne", "model.findStream">>)
    ELSE Via(insert(st, dataToInsert(p)), <<"model.findOne", "doc.save">>)

\* _upsertLoop from the answer of its findOne on, which looks again
\* whether a document matches when it goes on.
_upsertLoopLooksAgain(st, p, found) ==
    LET grant == getTargetGrant(p.permissions, dataToInsert(p))
    IN  IF findOne(st, p.query) # 0
        THEN Via(updateEach(st, find(st, p.query, 1), 1, p),
                 <<"model.findOne", "model.findStream">>)
        ELSE IF ~has(grant, "write")
        THEN Via(Outcome("ACCESS_DENIED", st, <<>>), <<"model.findOne">>)
        ELSE IF ~checkWriteMask(grant, getUpdatedFields(p.update))
        THEN Via(Outcome("ACCESS_DENIED", st, <<>>), <<"model.findOne">>)
        ELSE Via(insert(st, dataToInsert(p)), <<"model.findOne", "doc.save">>)

\* _upsertLoop from the answer of its findOne on: findOne resolved (found)
\* or rejected with NOT_FOUND; st is the store as it is by then.
_upsertLoopAfterFindOne(st, p, found) ==
    LET grant == getTargetGrant(p.permissions, dataToInsert(p))
    IN  IF found
        THEN Via(updateEach(st, find(st, p.query, 1), 1, p),
                 <<"model.findOne", "model.findStream">>)
        ELSE IF ~has(grant, "write")
        THEN Via(Outcome("ACCESS_DENIED", st, <<>>), <<"model.findOne">>)
        ELSE IF ~checkWriteMask(grant, getUpdatedFields(p.update))
        THEN Via(Outcome("ACCESS_DENIED", st, <<>>), <<"model.findOne">>)
        ELSE Via(insert(st, dataToInsert(p)), <<"model.findOne", "doc.save">>)

\* _upsertLoop(query, update, permissions, params)
_upsertLoop(st, p) == _upsertLoopAfterFindOne(st, p, findOne(st, p.query) # 0)

\* upsert whose bulk check covers the updated fields and not the exact
\* matches of the query.
upsertBulkUpdatedOnly(st, p) ==
    LET grant == getTargetGrant(p.permissions, p.query)
        bulk  == /\ has(grant, "write")
                 /\ checkWriteMask(grant, getUpdatedFields(p.update))
    IN  IF containsProtected(p) THEN Outcome("INVALID_ARGUMENT", st, <<>>)
        ELSE IF ~HasPermissions(p) THEN modelUpsert(st, p)
        ELSE IF ~queryAllowed(p) THEN Outcome("ACCESS_DENIED", st, <<>>)
        ELSE IF p.overwriteProtected /\ ~has(grant, "overwriteProtected")
        THEN Outcome("ACCESS_DENIED", st, <<>>)
        ELSE IF ~globalWriteCheck(p) THEN Outcome("ACCESS_DENIED", st, <<>>)
        ELSE IF ~bulk THEN _upsertLoop(st, p)
        ELSE modelUpsert(st, p)

\* upsert(params)
upsert(st, p) ==
    LET grant == getTargetGrant(p.permissions, p.query)
        bulk  == /\ has(grant, "write")
                 /\ checkWriteMask(grant, FieldsOf(p.query) \cup getUpdatedFields(p.update))
    IN  IF containsProtected(p) THEN Outcome("INVALID_ARGUMENT", st, <<>>)
        ELSE IF ~HasPermissions(p) THEN modelUpsert(st, p)
        ELSE IF ~queryAllowed(p) THEN Outcome("ACCESS_DENIED", st, <<>>)
        ELSE IF p.overwriteProtected /\ ~has(grant, "overwriteProtected")
        THEN Outcome("ACCESS_DENIED", st, <<>>)
        ELSE IF ~globalWriteCheck(p) THEN Outcome("ACCESS_DENIED", st, <<>>)
        ELSE IF ~bulk THEN _upsertLoop(st, p)
        ELSE modelUpsert(st, p)

\* The store without the documents at the positions of gone.
RECURSIVE without(_, _, _)
without(st, gone, i) ==
    IF i > Len(st) THEN <<>>
    ELSE IF i \in gone THEN without(st, gone, i + 1)
    ELSE <<st[i]>> \o without(st, gone, i + 1)

\* model.remove(query): the store removes every document that matches.
modelRemove(st, qry) ==
    without(st, {k \in 1..Len(st) : QueryMatches(qry, st[k])}, 1)

\* The loop of _removeLoop over the documents found, from the k-th on: each
\* document is checked against the grant of its own data and removed; the
\* first error ends the loop.
RECURSIVE removeEach(_, _, _, _, _)
removeEach(st, found, k, gone, p) ==
    IF k > Len(found) THEN Outcome("OK", without(st, gone, 1), <<>>)
    ELSE LET grant == getTargetGrant(p.permissions, st[found[k]])
         IN  IF ~has(grant, "delete") THEN Outcome("ACCESS_DENIED", without(st, gone, 1), <<>>)
             ELSE removeEach(st, found, k + 1, gone \cup {found[k]}, p)

\* _removeLoop(query, permissions, params)
_removeLoop(st, p) ==
    Via(removeEach(st, find(st, p.query, 1), 1, {}, p), <<"model.findStream">>)

\* remove that goes through the per-document loop whatever the bulk check
\* says.
removeAlwaysLoop(st, p) ==
    IF ~HasPermissions(p)
    THEN Via(Outcome("OK", modelRemove(st, p.query), <<>>), <<"model.remove">>)
    ELSE IF ~queryAllowed(p) THEN Outcome("ACCESS_DENIED", st, <<>>)
    ELSE _removeLoop(st, p)

\* remove(params)
remove(st, p) ==
    LET grant == getTargetGrant(p.permissions, p.query)
    IN  IF ~HasPermissions(p)
        THEN Via(Outcome("OK", modelRemove(st, p.query), <<>>), <<"model.remove">>)
        ELSE IF ~queryAllowed(p) THEN Outcome("ACCESS_DENIED", st, <<>>)
        ELSE IF ~has(grant, "delete") THEN _removeLoop(st, p)
        ELSE Via(Outcome("OK", modelRemove(st, p.query), <<>>), <<"model.remove">>)

----------------------------------------------------------------------------
(* The calls *)

\* The parameters of a call; a call leaves those it does not take at these
\* values.
NoParams ==
    [permissions |-> "everything", data |-> EmptyObj, keys |-> EmptyObj,
     query |-> EmptyObj, update |-> EmptyObj, fields |-> {}, hasFields |-> FALSE,
     extraFields |-> {}, requestFields |-> {}, hasRequestFields |-> FALSE,
     filterFields |-> {}, hasFilterFields |-> FALSE,
     allowPrivateFields |-> FALSE, overwriteProtected |-> FALSE,
     groupBy |-> "id", elements |-> <<>>]

\* The permissions a caller supplies: a permission set, or none.
PermInputs == PermNames \cup {NoPermissions}

\* The fields a caller groups an aggregate by.
GroupByInputs == {"animalType", "ssn"}

\* The values a caller gives to a field of the data of put and of an update.
InputValues ==
    [f \in Fields |->
        CASE f = "id"         -> {"a", "b"}
          [] f = "animalType" -> {"dog", "cat"}
          [] f = "ssn"        -> {"s2"}
          [] f = "coolness"   -> {"3"}
          [] f = "favNumber"  -> {"7"}]

\* The objects a caller gives as the data of put: the key with up to two
\* other fields, and two objects without the key.
DataInputs ==
    {d \in [Fields -> UNION {InputValues[f] : f \in Fields} \cup {Absent}] :
        /\ \A f \in Fields : d[f] \in InputValues[f] \cup {Absent}
        /\ d["id"] = Absent => \A f \in Fields \ {"ssn"} : d[f] = Absent
        /\ \A f, g, h \in FieldsOf(d) \ {"id"} : f = g \/ g = h \/ f = h}

\* The updates a caller gives: a $set of one field.
UpdateInputs ==
    {Obj1("animalType", "dog"), Obj1("ssn", "s2"), Obj1("coolness", "3"),
     Obj1("favNumber", "7"), Obj1("id", "c")}

\* The queries a caller gives: every document, the documents that have one
\* value of a field, a document that is not there.
QueryInputs ==
    {EmptyObj, Obj1("id", "b"), Obj1("animalType", "cat"), Obj1("ssn", "s1"),
     Obj1("coolness", "3"), Obj1("id", "d")}

\* The keys a caller gives to get.
KeyInputs == {EmptyObj, Obj1("id", "a"), Obj1("id", "b")}

\* The documents a request to the put and put-multi routes carries, and the
\* arrays of them a request to put-multi carries.
RouteDataInputs ==
    {d \in DataInputs : d["id"] # Absent /\ d["animalType"] = Absent
                        /\ d["ssn"] = Absent /\ d["coolness"] = Absent}

RouteElementInputs ==
    {<<d>> : d \in RouteDataInputs}
        \cup {<<d, e>> : d \in RouteDataInputs, e \in RouteDataInputs}

\* The lists of fields a caller asks of get.
FieldInputs == {{"id"}, {"animalType", "ssn"}, {"coolness"}}

\* The documents of the stores a behaviour starts from: one that holds a
\* private value and protected values that are not the defaults, and two
\* that hold the defaults.
DocCat ==
    [f \in Fields |->
        CASE f = "id" -> "a" [] f = "animalType" -> "cat" [] f = "ssn" -> "s1"
          [] f = "coolness" -> "5" [] f = "favNumber" -> "6"]

DocDog ==
    [f \in Fields |->
        CASE f = "id" -> "b" [] f = "animalType" -> "dog" [] f = "ssn" -> Absent
          [] f = "coolness" -> "4" [] f = "favNumber" -> Absent]

DocCat2 == [DocDog EXCEPT !["id"] = "c", !["animalType"] = "cat"]

\* The stores a behaviour starts from.
InitStores == {<<>>, <<DocCat, DocDog, DocCat2>>}

\* An outcome with the steps the call went through: the events it
\* triggered and the operation it ran, in order.
Traced(outcome, steps) == outcome @@ [steps |-> steps]

\* _preprocessParams that accepts a call without permissions.
_preprocessParamsLenient(p) == TRUE

\* _preprocessParams(params, method) does not throw: the call has
\* permissions, or the wrapper allows calls without.
_preprocessParams(p) == HasPermissions(p) \/ wrapper.allowNoPermissions

\* this.trigger(event, params) resolves: no hook of the event rejects.
trigger(event) == event \notin wrapper.hooks

\* An operation that triggers its hook once its body has run.
operationHookLast(event, name, st, p, argsOK, body) ==
    IF ~_preprocessParams(p)
    THEN Traced(Outcome("INVALID_ARGUMENT", st, <<>>), <<"preprocess-params">>)
    ELSE IF ~argsOK
    THEN Traced(Outcome("INVALID_ARGUMENT", st, <<>>), <<"preprocess-params">>)
    ELSE IF ~trigger(event)
    THEN Traced(Outcome("HOOK_ERROR", body.store, <<>>), <<"preprocess-params", name, event>>)
    ELSE Traced(body, <<"preprocess-params", name, event>>)

\* The frame of every operation of the wrapper: _preprocessParams, the
\* validation of the arguments that get makes before its hook, the hook of
\* the operation, and then the body of the operation.
operation(event, name, st, p, argsOK, body) ==
    IF ~_preprocessParams(p)
    THEN Traced(Outcome("INVALID_ARGUMENT", st, <<>>), <<"preprocess-params">>)
    ELSE IF ~argsOK
    THEN Traced(Outcome("INVALID_ARGUMENT", st, <<>>), <<"preprocess-params">>)
    ELSE IF ~trigger(event)
    THEN Traced(Outcome("HOOK_ERROR", st, <<>>), <<"preprocess-params", event>>)
    ELSE Traced(body, <<"preprocess-params", event, name>>)

\* get validates params.keys before it triggers pre-get.
getKeysValid(p) == \A f \in keyFields : p.keys[f] # Absent

\* ModelAccessRoutes._makeParams(params, ctx, options) with no extraParams:
\* the permissions of the context are added to the params.
_makeParams(params, ctx) == [params EXCEPT !.permissions = ctx.permissions]

\* The handler of the put route: put of the params of the request.
registerPut(st, ctx) ==
    LET p == _makeParams([NoParams EXCEPT !.data = ctx.data,
                                          !.overwriteProtected = ctx.overwriteProtected], ctx)
    IN  IF ~HasPermissions(ctx)
        THEN Traced(Outcome("INTERNAL_ERROR", st, <<>>), <<>>)
        ELSE operation("pre-put", "put", st, p, TRUE, put(st, p))

\* pasync.mapSeries of the put-multi route, from the k-th element on: each
\* element is put with params { data } and the permissions of the context;
\* the first error ends the series.
RECURSIVE putEach(_, _, _, _, _)
putEach(st, ctx, k, keys, steps) ==
    IF k > Len(ctx.elements) THEN Traced(Outcome("OK", st, keys), steps)
    ELSE IF ~HasPermissions(ctx)
    THEN Traced(Outcome("INTERNAL_ERROR", st, <<>>), steps)
    ELSE LET p == _makeParams([NoParams EXCEPT !.data = ctx.elements[k]], ctx)
             done == operation("pre-put", "put", st, p, TRUE, put(st, p))
         IN  IF done.code # "OK"
             THEN Traced(Outcome(done.code, done.store, <<>>), steps \o done.steps)
             ELSE putEach(done.store, ctx, k + 1, keys \o done.out, steps \o done.steps)

\* The handler of the put-multi route.
registerPutMulti(st, ctx) == putEach(st, ctx, 1, <<>>, <<>>)

\* What a call records.
Record(op, p, st, outcome) ==
    [op |-> op, params |-> p, before |-> st, code |-> outcome.code, out |-> outcome.out,
     steps |-> outcome.steps, via |-> outcome.via]

\* No call is under way.
Idle == Record("none", NoParams, <<>>, Traced(Outcome("OK", <<>>, <<>>), <<>>))

\* No call is between two of its calls of the store.
NoCall ==
    [phase |-> "none", params |-> NoParams, data |-> EmptyObj, found |-> FALSE,
     doc |-> EmptyObj, readStore |-> <<>>, others |-> 0]

\* A wrapper constructed with { model } alone, as the tests construct it,
\* with no hook that rejects.
Init ==
    /\ wrapper = Construct(FALSE, {})
    /\ store \in InitStores
    /\ last = Idle
    /\ calls = 0
    /\ inflight = NoCall

\* A wrapper constructed with allowNoPermissions, or with hooks that
\* reject, or both.
InitConfigured ==
    /\ wrapper \in {Construct(TRUE, {}), Construct(FALSE, HookNames),
                     Construct(TRUE, HookNames)}
    /\ store = <<DocDog, DocCat>>
    /\ last = Idle
    /\ calls = 0
    /\ inflight = NoCall

\* A wrapper constructed with a serialize function that throws for some
\* documents.
InitSerialize ==
    /\ wrapper \in {ConstructSerialize({"c"}), ConstructSerialize({"b"})}
    /\ store = <<DocCat, DocDog, DocCat2>>
    /\ last = Idle
    /\ calls = 0
    /\ inflight = NoCall

\* A call can start: the one before it has settled.
Ready == last = Idle /\ calls < MaxCalls

\* A call of a method of the wrapper, from its start to the settling of its
\* promise.
DoCall(op, p, outcome) ==
    /\ calls' = calls + 1
    /\ store' = outcome.store
    /\ last' = Record(op, p, store, outcome)
    /\ UNCHANGED <<wrapper, inflight>>

\* The caller is done with the outcome of the call; its params are
\* discarded.
Settle ==
    /\ last # Idle
    /\ last' = Idle
    /\ UNCHANGED <<wrapper, store, calls, inflight>>

Get ==
    /\ Ready
    /\ \E keys \in KeyInputs, perms \in PermInputs, apf \in BOOLEAN,
          fields \in FieldInputs \cup {{}} :
           LET p == [NoParams EXCEPT !.permissions = perms, !.keys = keys,
                                     !.fields = fields, !.hasFields = (fields # {}),
                                     !.allowPrivateFields = apf]
           IN  DoCall("get", p,
                      operation("pre-get", "get", store, p, getKeysValid(p), get(store, p)))

Query ==
    /\ Ready
    /\ \E qry \in QueryInputs, perms \in PermInputs, apf \in BOOLEAN :
           LET p == [NoParams EXCEPT !.permissions = perms, !.query = qry,
                                     !.allowPrivateFields = apf]
           IN  DoCall("query", p,
                      operation("pre-query", "query", store, p, TRUE, query(store, p)))

Stream ==
    /\ Ready
    /\ \E qry \in QueryInputs, perms \in PermInputs, apf \in BOOLEAN :
           LET p == [NoParams EXCEPT !.permissions = perms, !.query = qry,
                                     !.allowPrivateFields = apf]
           IN  DoCall("stream", p,
                      operation("pre-query", "stream", store, p, TRUE, stream(store, p)))

Put ==
    /\ Ready
    /\ \E data \in DataInputs, perms \in PermInputs, apf \in BOOLEAN, owp \in BOOLEAN :
           LET p == [NoParams EXCEPT !.permissions = perms, !.data = data,
                                     !.allowPrivateFields = apf, !.overwriteProtected = owp]
           IN  DoCall("put", p,
                      operation("pre-put", "put", store, p, TRUE, put(store, p)))

Update ==
    /\ Ready
    /\ \E qry \in QueryInputs, upd \in UpdateInputs, perms \in PermInputs,
          apf \in BOOLEAN, owp \in BOOLEAN :
           LET p == [NoParams EXCEPT !.permissions = perms, !.query = qry, !.update = upd,
                                     !.allowPrivateFields = apf, !.overwriteProtected = owp]
           IN  DoCall("update", p,
                      operation("pre-update", "update", store, p, TRUE, update(store, p)))

Upsert ==
    /\ Ready
    /\ \E qry \in QueryInputs, upd \in UpdateInputs, perms \in PermInputs,
          apf \in BOOLEAN, owp \in BOOLEAN :
           LET p == [NoParams EXCEPT !.permissions = perms, !.query = qry, !.update = upd,
                                     !.allowPrivateFields = apf, !.overwriteProtected = owp]
           IN  DoCall("upsert", p,
                      operation("pre-upsert", "upsert", store, p, TRUE, upsert(store, p)))

Remove ==
    /\ Ready
    /\ \E qry \in QueryInputs, perms \in PermInputs, apf \in BOOLEAN :
           LET p == [NoParams EXCEPT !.permissions = perms, !.query = qry,
                                     !.allowPrivateFields = apf]
           IN  DoCall("remove", p,
                      operation("pre-remove", "remove", store, p, TRUE, remove(store, p)))

Count ==
    /\ Ready
    /\ \E qry \in QueryInputs, perms \in PermInputs, apf \in BOOLEAN :
           LET p == [NoParams EXCEPT !.permissions = perms, !.query = qry,
                                     !.allowPrivateFields = apf]
           IN  DoCall("count", p,
                      operation("pre-count", "count", store, p, TRUE, count(store, p)))

AggregateMulti ==
    /\ Ready
    /\ \E qry \in QueryInputs, groupBy \in GroupByInputs, perms \in PermInputs,
          apf \in BOOLEAN :
           LET p == [NoParams EXCEPT !.permissions = perms, !.query = qry,
                                     !.groupBy = groupBy, !.allowPrivateFields = apf]
           IN  DoCall("aggregateMulti", p,
                      operation("pre-aggregate", "aggregateMulti", store, p, TRUE,
                                aggregateMulti(store, p)))

\* A request to the put route.
RoutePut ==
    /\ Ready
    /\ \E data \in RouteDataInputs, perms \in PermInputs, owp \in BOOLEAN :
           LET ctx == [NoParams EXCEPT !.permissions = perms, !.data = data,
                                       !.overwriteProtected = owp]
           IN  DoCall("route.put", ctx, registerPut(store, ctx))

\* A request to the put-multi route.
RoutePutMulti ==
    /\ Ready
    /\ \E elements \in RouteElementInputs, perms \in PermInputs, owp \in BOOLEAN :
           LET ctx == [NoParams EXCEPT !.permissions = perms, !.elements = elements,
                                       !.overwriteProtected = owp]
           IN  DoCall("route.put-multi", ctx, registerPutMulti(store, ctx))

Next ==
    \/ Get
    \/ Query
    \/ Stream
    \/ Count
    \/ AggregateMulti
    \/ Put
    \/ Update
    \/ Upsert
    \/ Remove
    \/ RoutePut
    \/ RoutePutMulti
    \/ Settle

Spec == Init /\ [][Next]_vars

\* The calls that prepare the documents a query matches, on a wrapper
\* whose serialize function throws.
NextSerialize ==
    \/ Query
    \/ Stream
    \/ Settle

SpecSerialize == InitSerialize /\ [][NextSerialize]_vars

\* The extra fields a caller asks the store for.
ExtraFieldInputs == {{}, {"favNumber"}}

\* A wrapper constructed with { model } alone, over the saved documents.
InitFields ==
    /\ wrapper = Construct(FALSE, {})
    /\ store = <<DocCat, DocDog, DocCat2>>
    /\ last = Idle
    /\ calls = 0
    /\ inflight = NoCall

\* get with params that name the fields to return and extra fields to
\* fetch.
GetFields ==
    /\ Ready
    /\ \E keys \in KeyInputs, perms \in PermInputs, apf \in BOOLEAN,
          fields \in FieldInputs \cup {{}}, extraFields \in ExtraFieldInputs :
           LET p == [NoParams EXCEPT !.permissions = perms, !.keys = keys,
                                     !.fields = fields, !.hasFields = (fields # {}),
                                     !.extraFields = extraFields,
                                     !.allowPrivateFields = apf]
           IN  DoCall("get", p,
                      operation("pre-get", "get", store, p, getKeysValid(p), get(store, p)))

\* The caller calls get again with the params object of the call before,
\* which that call has preprocessed.
GetAgain ==
    /\ last.op = "get" /\ last.params.hasFields /\ ~last.params.hasRequestFields
    /\ _preprocessParams(last.params)
    /\ LET p == _preprocessParamsFields(last.params)
       IN  DoCall("get", p,
                  operation("pre-get", "get", store, p, getKeysValid(p), get(store, p)))

NextFields ==
    \/ GetFields
    \/ GetAgain
    \/ Settle

SpecFields == InitFields /\ [][NextFields]_vars

\* A put by one caller that another caller's put interleaves with: over
\* saved documents, with and without one that has the keys of the put.
InitPutRace ==
    /\ wrapper = Construct(FALSE, {})
    /\ store \in {<<DocCat, DocDog>>, <<DocCat>>}
    /\ last = Idle
    /\ calls = 0
    /\ inflight = NoCall

\* put from its start to the answer of its findOne: the call settles here
\* when it fails before findOne.
PutRead ==
    /\ inflight = NoCall /\ Ready
    /\ \E data \in DataInputs, perms \in PermInputs, owp \in BOOLEAN :
           LET p == [NoParams EXCEPT !.permissions = perms, !.data = data,
                                     !.overwriteProtected = owp]
               begun == operation("pre-put", "put", store, p, TRUE, putBegin(store, p))
               stripped == putStripProtected(p)
               i == findOne(store, filterObject(keyFields, stripped))
           IN  IF begun.code # "OK" THEN DoCall("put", p, begun)
               ELSE /\ inflight' = [phase |-> "read", params |-> p, data |-> stripped,
                                    found |-> (i # 0),
                                    doc |-> IF i # 0 THEN store[i] ELSE EmptyObj,
                                    readStore |-> store, others |-> 0]
                    /\ calls' = calls + 1
                    /\ UNCHANGED <<wrapper, store, last>>

\* While the put is between its findOne and its save, another caller's put
\* of a document with the same keys runs from start to end.
OtherPut ==
    /\ inflight.phase = "read" /\ inflight.others < MaxOthers
    /\ \E data \in DataInputs :
           /\ filterObject(keyFields, data) = filterObject(keyFields, inflight.data)
           /\ LET p == [NoParams EXCEPT !.data = data]
                  other == operation("pre-put", "put", store, p, TRUE, put(store, p))
              IN
               /\ other.code = "OK"
               /\ store' = other.store
               /\ inflight' = [inflight EXCEPT !.others = @ + 1]
               /\ UNCHANGED <<wrapper, last, calls>>

\* The answer of findOne is handled and the document is saved; the put
\* settles.
PutSave ==
    /\ inflight.phase = "read"
    /\ LET outcome == putSave(store, inflight.params, inflight.data,
                              inflight.found, inflight.doc)
       IN  /\ store' = outcome.store
           /\ last' = Record("put", inflight.params, store,
                             Traced(outcome, <<"preprocess-params", "pre-put", "put">>))
           /\ inflight' = [inflight EXCEPT !.phase = "saved"]
           /\ UNCHANGED <<wrapper, calls>>

NextPutRace ==
    \/ PutRead
    \/ OtherPut
    \/ PutSave

SpecPutRace == InitPutRace /\ [][NextPutRace]_vars

\* An upsert by one caller that calls of other callers interleave with:
\* over the saved documents.
InitUpsertRace ==
    /\ wrapper = Construct(FALSE, {})
    /\ store = <<DocCat, DocDog, DocCat2>>
    /\ last = Idle
    /\ calls = 0
    /\ inflight = NoCall

\* upsert from its start to the answer of the findOne of _upsertLoop: the
\* call settles here when it fails before, or takes the single call of the
\* store.
UpsertFindOne ==
    /\ inflight = NoCall /\ Ready
    /\ \E qry \in QueryInputs, upd \in UpdateInputs, perms \in PermInputs :
           LET p == [NoParams EXCEPT !.permissions = perms, !.query = qry, !.update = upd]
               whole == operation("pre-upsert", "upsert", store, p, TRUE, upsert(store, p))
           IN  IF whole.via = <<>> \/ Head(whole.via) # "model.findOne"
               THEN DoCall("upsert", p, whole)
               ELSE /\ inflight' = [phase |-> "read", params |-> p, data |-> EmptyObj,
                                    found |-> (findOne(store, qry) # 0),
                                    doc |-> EmptyObj,
                                    readStore |-> store, others |-> 0]
                    /\ calls' = calls + 1
                    /\ UNCHANGED <<wrapper, store, last>>

\* While the upsert is between its findOne and what follows, another
\* caller's remove with the same query runs from start to end.
OtherRemove ==
    /\ inflight.phase = "read" /\ inflight.others < MaxOthers
    /\ LET p == [NoParams EXCEPT !.query = inflight.params.query]
           other == operation("pre-remove", "remove", store, p, TRUE, remove(store, p))
       IN  /\ other.code = "OK" /\ other.store # store
           /\ store' = other.store
           /\ inflight' = [inflight EXCEPT !.others = @ + 1]
           /\ UNCHANGED <<wrapper, last, calls>>

\* While the upsert is between its findOne and what follows, another
\* caller's upsert with the same query and update runs from start to end.
OtherUpsert ==
    /\ inflight.phase = "read" /\ inflight.others < MaxOthers
    /\ LET p == [NoParams EXCEPT !.query = inflight.params.query,
                                 !.update = inflight.params.update]
           other == operation("pre-upsert", "upsert", store, p, TRUE, upsert(store, p))
       IN  /\ other.code = "OK" /\ other.store # store
           /\ store' = other.store
           /\ inflight' = [inflight EXCEPT !.others = @ + 1]
           /\ UNCHANGED <<wrapper, last, calls>>

\* The answer of findOne is handled: the documents are streamed and
\* updated, or the new document is saved; the upsert settles.
UpsertFinish ==
    /\ inflight.phase = "read"
    /\ LET outcome == _upsertLoopAfterFindOne(store, inflight.params, inflight.found)
       IN  /\ store' = outcome.store
           /\ last' = Record("upsert", inflight.params, store,
                             Traced(outcome, <<"preprocess-params", "pre-upsert", "upsert">>))
           /\ inflight' = [inflight EXCEPT !.phase = "saved"]
           /\ UNCHANGED <<wrapper, calls>>

NextUpsertRace ==
    \/ UpsertFindOne
    \/ OtherRemove
    \/ OtherUpsert
    \/ UpsertFinish

SpecUpsertRace == InitUpsertRace /\ [][NextUpsertRace]_vars

\* The same calls on a wrapper that is configured.
SpecConfigured == InitConfigured /\ [][Next]_vars

----------------------------------------------------------------------------
(* The properties *)

\* The permission checks of a write, in the words of the grant.
CanWrite(grant, fields) == "write" \in grant.caps /\ fields \subseteq grant.writeMask

CanDelete(grant) == "delete" \in grant.caps

\* The last call was made with permissions.
WithPermissions == HasPermissions(last.params)

\* The grant of the exact matches of the last call's query, and of a
\* document's data.
QueryGrant == getTargetGrant(last.params.permissions, last.params.query)

DocGrant(doc) == getTargetGrant(last.params.permissions, doc)

UpdatedFields == {f \in Fields : last.params.update[f] # Absent}

\* The positions of the documents the last call's query matched, in order.
Matched == find(last.before, last.params.query, 1)

\* The document the last update made of a document.
Updated(doc) == Normalize([f \in Fields |->
    IF last.params.update[f] # Absent THEN last.params.update[f] ELSE doc[f]])

\* C1: after an update, upsert or remove, every document that was changed
\* or removed was authorized, by the grant of the query's exact matches or
\* by the grant of the document's own data as it was before the call.
C1_ChangedAuthorized ==
    /\ (last.op \in {"update", "upsert"} /\ WithPermissions) =>
         /\ Len(store) >= Len(last.before)
         /\ \A i \in 1..Len(last.before) :
              store[i] # last.before[i] =>
                \/ CanWrite(QueryGrant, UpdatedFields)
                \/ CanWrite(DocGrant(last.before[i]), UpdatedFields)
    /\ (last.op = "remove" /\ WithPermissions) =>
         \E gone \in SUBSET (1..Len(last.before)) :
            /\ store = without(last.before, gone, 1)
            /\ \A i \in gone :
                 CanDelete(QueryGrant) \/ CanDelete(DocGrant(last.before[i]))

\* C1 witness: an update that the grant of the query did not cover changed
\* a document that the grant of its own data covers.
C1_Witness ==
    /\ last.op = "update" /\ last.code = "OK" /\ WithPermissions
    /\ ~CanWrite(QueryGrant, UpdatedFields)
    /\ \E i \in 1..Len(last.before) : store[i] # last.before[i]

\* The per-document loop ran: the checks before the bulk check passed and
\* the bulk check did not.
LoopRan ==
    /\ last.op \in {"update", "upsert", "remove"}
    /\ WithPermissions
    /\ queryAllowed(last.params)
    /\ last.op # "remove" =>
         /\ ~containsProtected(last.params)
         /\ last.params.overwriteProtected => "overwriteProtected" \in QueryGrant.caps
    /\ last.op = "update" => ~CanWrite(QueryGrant, UpdatedFields)
    /\ last.op = "upsert" =>
         /\ ~CanWrite(QueryGrant, UpdatedFields \cup FieldsOf(last.params.query))
         /\ Matched # <<>>
    /\ last.op = "remove" => ~CanDelete(QueryGrant)

\* The k-th matched document passes the per-document check.
DocPasses(k) ==
    IF last.op = "remove" THEN CanDelete(DocGrant(last.before[Matched[k]]))
    ELSE CanWrite(DocGrant(last.before[Matched[k]]), UpdatedFields)

\* The first matched document that fails its check (0: none fails).
FirstFailure ==
    IF \A k \in 1..Len(Matched) : DocPasses(k) THEN 0
    ELSE CHOOSE k \in 1..Len(Matched) :
            ~DocPasses(k) /\ \A j \in 1..(k - 1) : DocPasses(j)

\* C2: when document N of the M matched fails in the per-document loop, the
\* call is ACCESS_DENIED, documents 1..N-1 are updated or removed, and
\* documents N..M and the rest of the store are as they were.
C2_StopsAtFirstFailure ==
    (LoopRan /\ FirstFailure # 0) =>
        /\ last.code = "ACCESS_DENIED"
        /\ last.op # "remove" =>
             /\ Len(store) = Len(last.before)
             /\ \A i \in 1..Len(store) :
                  store[i] =
                    IF \E k \in 1..(FirstFailure - 1) : Matched[k] = i
                    THEN Updated(last.before[i]) ELSE last.before[i]
        /\ last.op = "remove" =>
             store = without(last.before,
                             {Matched[k] : k \in 1..(FirstFailure - 1)}, 1)
        /\ FirstFailure = 1 => store = last.before

\* C2 witness: the second of three matched documents failed: the first is
\* changed, the third, which would have passed, is not.
C2_Witness ==
    /\ LoopRan /\ FirstFailure = 2 /\ Len(Matched) = 3 /\ DocPasses(3)
    /\ last.op = "update" /\ last.code = "ACCESS_DENIED"
    /\ store[Matched[1]] # last.before[Matched[1]]
    /\ store[Matched[3]] = last.before[Matched[3]]

\* The document get reads.
GetIndex == findOne(last.before, last.params.keys)

C4_NoPrivateInResults ==
    last.op \in {"get", "query", "stream"} =>
        /\ store = last.before
        /\ ~last.params.allowPrivateFields =>
             \A k \in 1..Len(last.out) : \A f \in Fields :
                Schema[f].private => last.out[k].data[f] = Absent

\* C4 witness: a get under a grant of everything, without
\* allowPrivateFields, of a document that holds a private value.
C4_Witness ==
    /\ last.op = "get" /\ last.code = "OK" /\ ~last.params.allowPrivateFields
    /\ last.params.permissions = "everything" /\ ~last.params.hasFields
    /\ last.before[GetIndex]["ssn"] # Absent
    /\ last.out[1].data["ssn"] = Absent
    /\ last.out[1].data["animalType"] # Absent

\* The protected and the private fields of the schema.
ProtectedOfSchema == {f \in Fields : Schema[f].protected}

PrivateOfSchema == {f \in Fields : Schema[f].private}

\* The last call is a put with permissions whose data has its key.
PutCalled == last.op = "put" /\ WithPermissions /\ last.params.data["id"] # Absent

\* The position of the document put replaces (0: put creates one).
PutIndex == findOne(last.before, Obj1("id", last.params.data["id"]))

\* The document put compares the data with: the existing one, or a new one
\* that holds the defaults.
PutExisting ==
    IF PutIndex # 0 THEN last.before[PutIndex]
    ELSE [f \in Fields |-> Schema[f].default]

\* The grant put resolves from the data.
PutGrant == DocGrant(last.params.data)

\* The fields whose value differs between the existing document and the
\* data, the protected ones left out without overwriteProtected.
PutDiff ==
    {f \in Fields : PutExisting[f] # last.params.data[f]}
        \ (IF last.params.overwriteProtected THEN {} ELSE ProtectedOfSchema)

\* C5: put succeeds only if the grant of the data has write and its
\* writeMask covers the fields that differ; otherwise put is ACCESS_DENIED
\* and the store is as it was.
C5_PutNeedsDiffCoverage ==
    PutCalled =>
        /\ last.code = "OK" => CanWrite(PutGrant, PutDiff)
        /\ ~CanWrite(PutGrant, PutDiff) =>
             last.code = "ACCESS_DENIED" /\ store = last.before

\* C5 witness: a put under a partial writeMask changed a document, and the
\* fields it changed are covered.
C5_Witness ==
    /\ PutCalled /\ last.code = "OK" /\ PutIndex # 0
    /\ last.params.permissions = "partialWrite"
    /\ PutDiff = {"animalType"}
    /\ store # last.before

\* C6: put of data that holds a private field, without allowPrivateFields,
\* is ACCESS_DENIED under every grant and changes nothing.
C6_PutPrivateDenied ==
    (last.op = "put" /\ WithPermissions /\ ~last.params.allowPrivateFields
        /\ \E f \in PrivateOfSchema : last.params.data[f] # Absent) =>
            last.code = "ACCESS_DENIED" /\ store = last.before

\* C6 witness: such a put under a grant of everything, with its key.
C6_Witness ==
    /\ PutCalled /\ ~last.params.allowPrivateFields
    /\ last.params.data["ssn"] # Absent
    /\ last.params.permissions = "everything"
    /\ last.code = "ACCESS_DENIED"

\* C7: a put on an existing document leaves its private fields as they
\* were without allowPrivateFields, and its protected fields as they were
\* without overwriteProtected.
C7_PutPreserves ==
    (PutCalled /\ PutIndex # 0) =>
        /\ Len(store) = Len(last.before)
        /\ ~last.params.allowPrivateFields =>
             \A f \in PrivateOfSchema :
                store[PutIndex][f] = last.before[PutIndex][f]
        /\ ~last.params.overwriteProtected =>
             \A f \in ProtectedOfSchema :
                store[PutIndex][f] = last.before[PutIndex][f]

\* C7 witness: a put that gave another value for one protected field and
\* omitted the other and the private field replaced the document.
C7_Witness ==
    /\ PutCalled /\ PutIndex # 0 /\ last.code = "OK"
    /\ ~last.params.allowPrivateFields /\ ~last.params.overwriteProtected
    /\ last.before[PutIndex]["ssn"] = "s1"
    /\ last.before[PutIndex]["coolness"] = "5"
    /\ last.before[PutIndex]["favNumber"] = "6"
    /\ last.params.data["coolness"] = "3"
    /\ last.params.data["favNumber"] = Absent
    /\ store[PutIndex] # last.before[PutIndex]
    /\ store[PutIndex]["ssn"] = "s1"

\* C8: a put that creates a document, without overwriteProtected, is
\* decided without regard to the protected fields of the data, and the
\* document it stores holds the defaults of the protected fields.
C8_PutNewIgnoresProtected ==
    (PutCalled /\ PutIndex = 0 /\ ~last.params.overwriteProtected) =>
        LET allowed ==
                /\ last.params.allowPrivateFields
                     \/ \A f \in PrivateOfSchema : last.params.data[f] = Absent
                /\ CanWrite(PutGrant,
                     {f \in Fields \ ProtectedOfSchema :
                        Schema[f].default # last.params.data[f]})
        IN  /\ last.code = "OK" <=> allowed
            /\ last.code \in {"OK", "ACCESS_DENIED"}
            /\ last.code = "OK" =>
                 /\ Len(store) = Len(last.before) + 1
                 /\ SubSeq(store, 1, Len(last.before)) = last.before
                 /\ \A f \in ProtectedOfSchema :
                      store[Len(store)][f] = Schema[f].default

\* C8 witness: a put of protected values under a writeMask that does not
\* cover coolness created a document.
C8_Witness ==
    /\ PutCalled /\ PutIndex = 0 /\ ~last.params.overwriteProtected
    /\ last.params.data["coolness"] = "3" /\ last.params.data["favNumber"] = "7"
    /\ last.params.permissions = "partialWrite"
    /\ last.code = "OK"
    /\ store[Len(store)]["coolness"] = "4"
    /\ store[Len(store)]["favNumber"] = Absent

\* The fields for which the data of put attempts a value that is not the
\* default of the schema.
PutAttempted ==
    {f \in Fields : last.params.data[f] # Absent
                    /\ last.params.data[f] # Schema[f].default}

\* C9: when put creates a document (here without overwriteProtected), a
\* field with a default that the data omits or gives at its default needs
\* no writeMask coverage: write and coverage of the fields for which a
\* non-default value is attempted suffice to create the document.
C9_DefaultedFieldNeedsNoCoverage ==
    (PutCalled /\ PutIndex = 0 /\ ~last.params.overwriteProtected
        /\ (last.params.allowPrivateFields
              \/ \A f \in PrivateOfSchema : last.params.data[f] = Absent)
        /\ CanWrite(PutGrant, PutAttempted \ ProtectedOfSchema)) =>
            last.code = "OK"

\* The protected fields the last call wrote in the document now at
\* position i: those it changed in a document that was there, those it set
\* off their default in a document it inserted.
ProtectedWritten(i) ==
    {f \in ProtectedOfSchema :
        IF i <= Len(last.before) THEN store[i][f] # last.before[i][f]
        ELSE store[i][f] # Schema[f].default}

\* The grants that can have authorized the last call's write of the
\* document at position i: of the data of put; of the query's exact
\* matches, of the document as it was, or of the data upsert inserts.
WriteGrants(i) ==
    IF last.op = "put" THEN {PutGrant}
    ELSE {QueryGrant}
            \cup (IF i <= Len(last.before) THEN {DocGrant(last.before[i])}
                  ELSE {DocGrant([f \in Fields |->
                            IF last.params.update[f] # Absent
                            THEN last.params.update[f] ELSE last.params.query[f]])})

\* The grant whose overwriteProtected capability the last call asks for.
CapabilityGrant == IF last.op = "put" THEN PutGrant ELSE QueryGrant

\* C10: put, update and upsert with overwriteProtected write protected
\* fields only under a grant that has the overwriteProtected capability
\* and whose writeMask covers each protected field written; without the
\* capability the call is ACCESS_DENIED and the store is as it was.
C10_OverwriteProtectedAuthorized ==
    (last.op \in {"put", "update", "upsert"} /\ last.params.overwriteProtected
        /\ WithPermissions /\ (last.op = "put" => PutCalled)) =>
        /\ Len(store) >= Len(last.before)
        /\ \A i \in 1..Len(store) :
             ProtectedWritten(i) # {} =>
                \E g \in WriteGrants(i) :
                    /\ "overwriteProtected" \in g.caps
                    /\ ProtectedWritten(i) \subseteq g.writeMask
        /\ "overwriteProtected" \notin CapabilityGrant.caps =>
             last.code = "ACCESS_DENIED" /\ store = last.before

\* C11: an update or upsert whose update touches a protected field, without
\* overwriteProtected, is INVALID_ARGUMENT under every grant, and no
\* document is changed or inserted.
C11_ProtectedUpdateRejected ==
    (last.op \in {"update", "upsert"} /\ ~last.params.overwriteProtected
        /\ UpdatedFields \cap ProtectedOfSchema # {}) =>
            last.code = "INVALID_ARGUMENT" /\ store = last.before

\* C11 witness: such an update under a grant of everything, with a query
\* that matches documents.
C11_Witness ==
    /\ last.op = "update" /\ ~last.params.overwriteProtected
    /\ last.params.permissions = "everything"
    /\ last.params.update["coolness"] = "3"
    /\ Matched # <<>>
    /\ last.code = "INVALID_ARGUMENT" /\ store = last.before

\* The fallback of upsert ran and no document matched the query: the
\* checks before the bulk check passed and the bulk check did not.
UpsertFallbackInsert ==
    /\ last.op = "upsert" /\ WithPermissions
    /\ ~containsProtected(last.params)
    /\ queryAllowed(last.params)
    /\ last.params.overwriteProtected => "overwriteProtected" \in QueryGrant.caps
    /\ globalWriteCheck(last.params)
    /\ ~CanWrite(QueryGrant, UpdatedFields \cup FieldsOf(last.params.query))
    /\ Matched = <<>>

\* The data the fallback of upsert makes up: the exact matches of the query
\* with the update applied.
Synthesized ==
    [f \in Fields |->
        IF last.params.update[f] # Absent THEN last.params.update[f]
        ELSE last.params.query[f]]

\* C12: in the fallback of upsert with no document matched, the document
\* made up of the exact matches and the update is inserted, and it alone,
\* only if the grant of that data has write and its writeMask covers the
\* updated fields; otherwise the call is ACCESS_DENIED and nothing is
\* inserted.
C12_FallbackInsertChecked ==
    UpsertFallbackInsert =>
        /\ store # last.before =>
              /\ CanWrite(DocGrant(Synthesized), UpdatedFields)
              /\ last.code = "OK"
              /\ store = Append(last.before, Normalize(Synthesized))
        /\ ~CanWrite(DocGrant(Synthesized), UpdatedFields) =>
              last.code = "ACCESS_DENIED" /\ store = last.before
        /\ (CanWrite(DocGrant(Synthesized), UpdatedFields)
                /\ Synthesized["id"] # Absent) =>
              store = Append(last.before, Normalize(Synthesized))

\* C12 witness: the fallback inserted a document.
C12_Witness ==
    /\ UpsertFallbackInsert /\ last.code = "OK"
    /\ CanWrite(DocGrant(Synthesized), UpdatedFields)
    /\ Len(store) = Len(last.before) + 1
    /\ store[Len(store)] = Normalize(Synthesized)

\* What a read under the permissions of the last call makes of a document:
\* null when the grant of the document lacks read, else the fields the
\* readMask covers, the private ones left out without allowPrivateFields.
Readable(doc) ==
    LET visible == [f \in Fields |->
                       IF Schema[f].private /\ ~last.params.allowPrivateFields
                       THEN Absent ELSE doc[f]]
        grant == DocGrant(visible)
    IN  IF "read" \notin grant.caps THEN NullResult
        ELSE Result([f \in Fields |-> IF f \in grant.readMask THEN visible[f] ELSE Absent])

\* C13: a query that succeeds returns one entry per document matched, in
\* the store's order: the data of the document as the caller may read it,
\* or null in the place of a document that is denied.
C13_QueryOneEntryPerDocument ==
    (last.op = "query" /\ WithPermissions /\ last.code = "OK") =>
        /\ Len(last.out) = Len(Matched)
        /\ \A k \in 1..Len(Matched) :
             last.out[k] = Readable(last.before[Matched[k]])

\* C13 witness: of three documents matched the second is denied: its
\* entry is null and stands between the entries of the other two.
C13_Witness ==
    /\ last.op = "query" /\ last.code = "OK" /\ Len(Matched) = 3
    /\ Len(last.out) = 3
    /\ ~last.out[1].null /\ last.out[2].null /\ ~last.out[3].null
    /\ last.out[3].data["id"] = last.before[Matched[3]]["id"]

\* The last call is a query whose query passed the checks of the
\* permissions and of the global permissions.
QueryRan == last.op = "query" /\ WithPermissions /\ queryAllowed(last.params)

\* Every document the query matched is denied.
AllFiltered == \A k \in 1..Len(Matched) : Readable(last.before[Matched[k]]).null

\* C14: a query that is allowed to run is ACCESS_DENIED exactly when it
\* matched at least one document and every matched document was filtered
\* out; with no document matched it succeeds with an empty result, and
\* with a document that passes it succeeds.
C14_QueryDeniedWhenAllFiltered ==
    QueryRan =>
        /\ last.code \in {"OK", "ACCESS_DENIED"}
        /\ last.code = "ACCESS_DENIED" <=> (Matched # <<>> /\ AllFiltered)
        /\ Matched = <<>> => (last.code = "OK" /\ last.out = <<>>)
        /\ store = last.before

\* C14 witness: a query that matched a document, filtered out, is denied.
C14_Witness ==
    /\ QueryRan /\ Matched # <<>> /\ AllFiltered
    /\ last.code = "ACCESS_DENIED"

\* The operations of the wrapper, those that take a query, and the event of
\* the hook of each.
WrapperOps ==
    {"get", "query", "stream", "count", "aggregateMulti", "put", "update",
     "upsert", "remove"}

QueryOps == WrapperOps \ {"get", "put"}

HookOf(op) ==
    CASE op = "get" -> "pre-get"
      [] op \in {"query", "stream"} -> "pre-query"
      [] op = "count" -> "pre-count"
      [] op = "aggregateMulti" -> "pre-aggregate"
      [] op = "put" -> "pre-put"
      [] op = "update" -> "pre-update"
      [] op = "upsert" -> "pre-upsert"
      [] op = "remove" -> "pre-remove"

\* The last call got past _preprocessParams and its hook: its body ran.
OperationRan == last.op \in WrapperOps /\ Len(last.steps) = 3

\* C15: every operation that takes a query rejects with ACCESS_DENIED,
\* the store untouched, a query that inspects a private field, unless
\* allowPrivateFields is set: under every grant, and for a call without
\* permissions on a wrapper that allows such calls. (An update that is
\* rejected for its protected fields is left aside.)
C15_PrivateQueryRejected ==
    (last.op \in QueryOps /\ OperationRan
        /\ ~last.params.allowPrivateFields
        /\ FieldsOf(last.params.query) \cap PrivateOfSchema # {}
        /\ ~containsProtected(last.params)) =>
            last.code = "ACCESS_DENIED" /\ store = last.before

\* The last call is a put under a grant of everything whose data holds no
\* private and no protected field.
PutPlain ==
    /\ PutCalled /\ last.params.permissions = "everything"
    /\ FieldsOf(last.params.data) \cap (PrivateOfSchema \cup ProtectedOfSchema) = {}

\* get of the key of the data put, under a grant of everything, in the
\* state the put left.
RoundTrip == get(store, [NoParams EXCEPT !.keys = Obj1("id", last.params.data["id"])])

\* The data with the defaults of the schema for the fields it omits.
WithDefaults(data) ==
    [f \in Fields |-> IF data[f] = Absent THEN Schema[f].default ELSE data[f]]

\* C16 as stated: put of such data and get of its key return the key and
\* the data with the defaults of the fields it omits, whether or not the
\* document existed.
C16_RoundTripDefaults ==
    PutPlain =>
        /\ last.code = "OK"
        /\ last.out = <<Result(Obj1("id", last.params.data["id"]))>>
        /\ RoundTrip.code = "OK"
        /\ RoundTrip.out = <<Result(WithDefaults(last.params.data))>>

\* C16, amended: put of such data and get of its key return the key and
\* the data with the defaults of the fields it omits, except that the
\* protected fields of a document that existed keep the values they had
\* when the put is made without overwriteProtected.
C16_RoundTripPreserving ==
    PutPlain =>
        /\ last.code = "OK"
        /\ last.out = <<Result(Obj1("id", last.params.data["id"]))>>
        /\ RoundTrip.code = "OK"
        /\ RoundTrip.out =
             <<Result([f \in Fields |->
                 IF Schema[f].protected /\ PutIndex # 0
                    /\ ~last.params.overwriteProtected
                 THEN last.before[PutIndex][f]
                 ELSE WithDefaults(last.params.data)[f]])>>

\* C16 witness: a put that omits animalType replaced a document whose
\* protected fields are off their defaults: get returns the default of
\* animalType and the protected values the document had.
C16_Witness ==
    /\ PutPlain /\ PutIndex # 0 /\ ~last.params.overwriteProtected
    /\ last.params.data["animalType"] = Absent
    /\ last.before[PutIndex]["animalType"] = "cat"
    /\ last.before[PutIndex]["coolness"] = "5"
    /\ RoundTrip.code = "OK"
    /\ RoundTrip.out[1].data["animalType"] = "dog"
    /\ RoundTrip.out[1].data["coolness"] = "5"

\* C17: a call that gets past _preprocessParams, and past the validation
\* of its keys for get, triggers the hook of its operation once, after
\* preprocessing and before the body of the operation; when the hook
\* rejects, the call rejects with the error of the hook, the body does not
\* run and the store is as it was.
C17_HookOnceBeforeOperation ==
    (last.op \in WrapperOps /\ _preprocessParams(last.params)
        /\ (last.op = "get" => getKeysValid(last.params))) =>
        /\ Cardinality({k \in 1..Len(last.steps) : last.steps[k] = HookOf(last.op)}) = 1
        /\ last.steps[1] = "preprocess-params"
        /\ last.steps[2] = HookOf(last.op)
        /\ HookOf(last.op) \in wrapper.hooks =>
             /\ last.steps = <<"preprocess-params", HookOf(last.op)>>
             /\ last.code = "HOOK_ERROR"
             /\ last.out = <<>>
             /\ store = last.before
        /\ HookOf(last.op) \notin wrapper.hooks =>
             last.steps = <<"preprocess-params", HookOf(last.op), last.op>>

\* C17 witness: the hook rejected an update that a grant of everything
\* allows and that matches documents; no document is changed.
C17_Witness ==
    /\ last.op = "update" /\ last.params.permissions = "everything"
    /\ ~containsProtected(last.params)
    /\ FieldsOf(last.params.query) = {}
    /\ last.before # <<>>
    /\ "pre-update" \in wrapper.hooks
    /\ last.code = "HOOK_ERROR" /\ store = last.before

\* C18: a call without permissions on a wrapper that does not allow such
\* calls is INVALID_ARGUMENT: its hook is not triggered, its body does not
\* run, and the store is as it was.
C18_NoPermissionsRejected ==
    (last.op \in WrapperOps /\ ~WithPermissions /\ ~wrapper.allowNoPermissions) =>
        /\ last.code = "INVALID_ARGUMENT"
        /\ last.steps = <<"preprocess-params">>
        /\ last.out = <<>>
        /\ store = last.before

\* C18 witness: such a call of remove, on a wrapper whose hook of remove
\* would reject, with a query that matches documents.
C18_Witness ==
    /\ last.op = "remove" /\ ~WithPermissions /\ ~wrapper.allowNoPermissions
    /\ "pre-remove" \in wrapper.hooks
    /\ Matched # <<>>
    /\ last.code = "INVALID_ARGUMENT" /\ store = last.before

\* C19: in every state the classification is the one the constructor
\* computed from the schema: the public and the private mask share no
\* field, protectedFields are the fields of protectedMask, hasPrivateFields
\* and hasProtectedFields tell whether the masks have a field.
C19_ClassificationFixed ==
    /\ wrapper.publicMask \cap wrapper.privateMask = {}
    /\ wrapper.protectedFields = wrapper.protectedMask
    /\ wrapper.hasPrivateFields <=> wrapper.privateMask # {}
    /\ wrapper.hasProtectedFields <=> wrapper.protectedMask # {}
    /\ wrapper.privateMask = PrivateOfSchema
    /\ wrapper.protectedMask = ProtectedOfSchema
    /\ \A k \in DOMAIN Classification : wrapper[k] = Classification[k]

\* C19 witness: an update changed a document and the classification is
\* what it was.
C19_Witness ==
    /\ last.op = "update" /\ last.code = "OK" /\ store # last.before
    /\ wrapper.privateMask = {"ssn"}
    /\ wrapper.protectedFields = {"coolness", "favNumber"}
    /\ wrapper.publicMask = Fields \ {"ssn"}

\* The store holds the document of the data with the protected values the
\* data gives.
RouteWrote(data) ==
    \E i \in 1..Len(store) :
        /\ store[i]["id"] = data["id"]
        /\ \A f \in ProtectedOfSchema : data[f] # Absent => store[i][f] = data[f]

\* C20: a request to the put route or to the put-multi route with
\* overwriteProtected true, under a grant of everything, succeeds and
\* writes the protected values of the data (for put-multi: of each element,
\* the last one of a key).
C20_RoutesHonourOverwriteProtected ==
    (last.op \in {"route.put", "route.put-multi"}
        /\ last.params.overwriteProtected
        /\ last.params.permissions = "everything") =>
        /\ last.code = "OK"
        /\ last.op = "route.put" => RouteWrote(last.params.data)
        /\ last.op = "route.put-multi" =>
             \A k \in 1..Len(last.params.elements) :
                (\A j \in (k + 1)..Len(last.params.elements) :
                    last.params.elements[j]["id"] # last.params.elements[k]["id"])
                    => RouteWrote(last.params.elements[k])

\* The last call is an update, upsert or remove made with permissions.
BulkOp == last.op \in {"update", "upsert", "remove"} /\ WithPermissions

\* The checks that come before the bulk check pass: the update holds no
\* protected field without overwriteProtected, the query is authorized,
\* the grant has overwriteProtected when it is asked, and for upsert the
\* exact matches pass the global writeMask.
BeforeBulkPass ==
    /\ queryAllowed(last.params)
    /\ last.op \in {"update", "upsert"} =>
          /\ UpdatedFields \cap ProtectedOfSchema # {} => last.params.overwriteProtected
          /\ last.params.overwriteProtected => "overwriteProtected" \in QueryGrant.caps
    /\ last.op = "upsert" => globalWriteCheck(last.params)

\* The bulk check passes on the grant of the exact matches, as the code of
\* each operation makes it.
BulkPasses ==
    CASE last.op = "update" -> CanWrite(QueryGrant, UpdatedFields)
      [] last.op = "upsert" ->
            CanWrite(QueryGrant, UpdatedFields \cup FieldsOf(last.params.query))
      [] last.op = "remove" -> CanDelete(QueryGrant)

\* The store call that does the whole operation at once.
BulkCall ==
    CASE last.op = "update" -> <<"model.update">>
      [] last.op = "upsert" -> <<"model.upsert">>
      [] last.op = "remove" -> <<"model.remove">>

\* The calls of the store the fallback loop makes.
LoopCalls ==
    {<<"model.findStream">>, <<"model.findOne", "model.findStream">>,
     <<"model.findOne">>, <<"model.findOne", "doc.save">>}

\* C21: update, upsert and remove enter the per-document loop only when
\* the bulk check was denied; when it passes the store does the whole
\* operation in one call and no document is streamed; a call rejected
\* before the bulk check makes no call of the store and changes nothing.
C21_FallbackOnlyOnBulkDenied ==
    BulkOp =>
        /\ last.via \in LoopCalls => (BeforeBulkPass /\ ~BulkPasses)
        /\ (BeforeBulkPass /\ BulkPasses) => last.via = BulkCall
        /\ (BeforeBulkPass /\ ~BulkPasses) => last.via \in LoopCalls
        /\ ~BeforeBulkPass =>
              /\ last.via = <<>>
              /\ last.code \in {"ACCESS_DENIED", "INVALID_ARGUMENT"}
              /\ store = last.before

\* C21 witness: a remove whose bulk check was denied went through the
\* loop and removed a document.
C21_Witness ==
    /\ BulkOp /\ last.op = "remove" /\ ~CanDelete(QueryGrant)
    /\ last.via = <<"model.findStream">>
    /\ last.code = "OK" /\ Len(store) < Len(last.before)

\* The data of the last put with the private fields (without
\* allowPrivateFields) and the protected fields (without overwriteProtected)
\* of the existing document in the place of its own.
PutMerged ==
    [f \in Fields |->
        IF Schema[f].protected /\ ~last.params.overwriteProtected
        THEN PutExisting[f]
        ELSE IF Schema[f].private /\ ~last.params.allowPrivateFields
                /\ PutExisting[f] # Absent
        THEN PutExisting[f]
        ELSE last.params.data[f]]

\* The fields the put changes: those that differ between the existing
\* document and the merged data.
PutChanged == {f \in Fields : PutExisting[f] # PutMerged[f]}

\* The last call is a put, without allowPrivateFields, of data that holds
\* no private field, over a document that exists.
PutOverExisting ==
    /\ PutCalled /\ PutIndex # 0
    /\ ~last.params.allowPrivateFields
    /\ FieldsOf(last.params.data) \cap PrivateOfSchema = {}

\* C22: put over an existing document checks the fields that differ once
\* the existing private and protected fields are merged onto the data: a
\* caller whose grant has write and a writeMask that covers the fields it
\* changes replaces the document, whatever private value the document
\* holds.
C22_PutMergesBeforeDiff ==
    (PutOverExisting
        /\ (last.params.overwriteProtected => "overwriteProtected" \in PutGrant.caps)
        /\ CanWrite(PutGrant, PutChanged)) =>
            last.code = "OK"

\* The last call is an update or upsert with permissions that got to its
\* bulk check.
AtBulkCheck == BulkOp /\ last.op \in {"update", "upsert"} /\ BeforeBulkPass

\* The exact-match fields of the query and the updated fields.
ExactAndUpdated == UpdatedFields \cup FieldsOf(last.params.query)

\* C23 as stated: update and upsert alike take the single bulk call
\* exactly when the grant of the exact matches has write and a writeMask
\* that covers the exact-match fields and the updated fields; otherwise
\* they go to the per-document fallback.
C23_BulkCoversExactMatches ==
    AtBulkCheck =>
        /\ CanWrite(QueryGrant, ExactAndUpdated) => last.via = BulkCall
        /\ ~CanWrite(QueryGrant, ExactAndUpdated) => last.via \in LoopCalls

\* C23, amended: upsert takes the single bulk call exactly when the grant
\* covers the exact-match fields and the updated fields; update takes it
\* exactly when the grant covers the updated fields, the exact-match
\* fields left aside.
C23_BulkCoverageByOperation ==
    AtBulkCheck =>
        LET needed == IF last.op = "upsert" THEN ExactAndUpdated ELSE UpdatedFields
        IN  /\ CanWrite(QueryGrant, needed) => last.via = BulkCall
            /\ ~CanWrite(QueryGrant, needed) => last.via \in LoopCalls

\* C23 witness: an upsert whose grant covers the updated field and not the
\* exact-match field of its query went to the fallback.
C23_Witness ==
    /\ AtBulkCheck /\ last.op = "upsert"
    /\ CanWrite(QueryGrant, UpdatedFields)
    /\ ~CanWrite(QueryGrant, ExactAndUpdated)
    /\ last.via \in LoopCalls

\* The last call is a stream with permissions whose query passed the
\* checks of the query.
StreamRan == last.op = "stream" /\ WithPermissions /\ queryAllowed(last.params)

\* The place among the matched documents of the first for which serialize
\* throws, 0 when there is none.
FirstThrown ==
    LET thrown == {k \in 1..Len(Matched) :
                     last.before[Matched[k]]["id"] \in wrapper.serializeFails}
    IN  IF thrown = {} THEN 0 ELSE CHOOSE k \in thrown : \A j \in thrown : k <= j

\* C24: stream handles each document on its own: a denied document gives
\* null and the stream goes on; an error that is not ACCESS_DENIED fails
\* the stream after the results of the documents before it; a stream all of
\* whose documents are denied ends normally.
C24_StreamPerDocument ==
    StreamRan =>
        LET n == IF FirstThrown = 0 THEN Len(Matched) ELSE FirstThrown - 1
        IN  /\ last.code = IF FirstThrown = 0 THEN "OK" ELSE "INTERNAL_ERROR"
            /\ Len(last.out) = n
            /\ \A k \in 1..n : last.out[k] = Readable(last.before[Matched[k]])
            /\ store = last.before

\* C24 witness: of three documents matched the first is returned, the
\* second is denied and gives null, and serialize throws for the third:
\* the stream fails after two results.
C24_Witness ==
    /\ StreamRan /\ Len(Matched) = 3 /\ FirstThrown = 3
    /\ last.code = "INTERNAL_ERROR"
    /\ Len(last.out) = 2 /\ ~last.out[1].null /\ last.out[2].null

\* The last call is a get that gave fields and passed _preprocessParams.
GetWithFields ==
    last.op = "get" /\ last.params.hasFields /\ _preprocessParams(last.params)

\* The fields the permissions of the last call need.
PermissionsFields ==
    IF WithPermissions THEN getTargetQueryFields(last.params.permissions) ELSE {}

UpdateWithoutPrivate ==
    /\ last.op \in {"update", "upsert"}
    /\ ~last.params.allowPrivateFields /\ wrapper.hasPrivateFields

\* C27: no update or upsert made without allowPrivateFields changes the
\* value of a private field of a document; an update expression that writes
\* a private field is rejected with ACCESS_DENIED whatever the grant.
C27_PrivateFieldsNotUpdated ==
    UpdateWithoutPrivate =>
        /\ Len(store) >= Len(last.before)
        /\ \A i \in 1..Len(last.before) : \A f \in wrapper.privateMask :
               store[i][f] = last.before[i][f]
        /\ (WithPermissions
               /\ getUpdatedFields(last.params.update) \cap wrapper.privateMask # {})
              => last.code = "ACCESS_DENIED"

\* C28: after an update or an upsert made without overwriteProtected,
\* every protected field of every document stored before has the value it
\* had, and a document that upsert inserted has each protected field at its
\* schema default.
C28_ProtectedFieldsKept ==
    (last.op \in {"update", "upsert"} /\ ~last.params.overwriteProtected) =>
        /\ Len(store) >= Len(last.before)
        /\ \A i \in 1..Len(last.before) : \A f \in wrapper.protectedFields :
               store[i][f] = last.before[i][f]
        /\ \A i \in (Len(last.before) + 1)..Len(store) :
               \A f \in wrapper.protectedFields : store[i][f] = Schema[f].default

\* The data of the document the last upsert inserts: the exact matches of
\* the query with the update applied.
DataToInsert == applyUpdate(last.params.update, last.params.query)

\* C29: every field of a document inserted by upsert, the fields copied
\* from the exact matches of the query included, is covered by the
\* writeMask of the grant that authorized the insert, on the bulk path (the
\* grant of the exact matches) and on the fallback path (the grant of the
\* data inserted).
C29_InsertedFieldsCovered ==
    (last.op = "upsert" /\ WithPermissions /\ last.code = "OK"
        /\ Len(store) > Len(last.before)) =>
        LET grant == IF last.via = <<"model.upsert">> THEN QueryGrant
                     ELSE DocGrant(DataToInsert)
        IN  CanWrite(grant, FieldsOf(DataToInsert))

\* The document of the store that has the keys of the put in flight, no
\* document when there is none.
WithPutKeys(st) ==
    LET i == findOne(st, filterObject(keyFields, inflight.data))
    IN  IF i = 0 THEN EmptyObj ELSE st[i]

\* The put, had it run from start to end on the store as its findOne read
\* it.
PutAlone == put(inflight.readStore, inflight.params)

FallbackResolved ==
    inflight.phase = "saved" /\ last.op = "upsert" /\ last.code = "OK"

\* The last upsert inserted one document and left the others alone.
InsertedOne ==
    /\ Len(store) = Len(last.before) + 1
    /\ \A i \in 1..Len(last.before) : store[i] = last.before[i]
    /\ store[Len(store)] = Normalize(DataToInsert)

\* The last upsert updated the documents that matched when it streamed
\* them, and inserted none.
UpdatedMatched ==
    /\ Len(store) = Len(last.before)
    /\ \A i \in 1..Len(store) :
           store[i] = IF \E k \in 1..Len(Matched) : Matched[k] = i
                      THEN Normalize(applyUpdate(last.params.update, last.before[i]))
                      ELSE last.before[i]

\* C30 as stated: under every interleaving an upsert whose fallback
\* resolves has updated at least one matching document, or has inserted
\* exactly one document while no other call inserted a matching one.
C30_FallbackUpdatesOrInserts ==
    FallbackResolved =>
        \/ inflight.found /\ Matched # <<>> /\ UpdatedMatched
        \/ ~inflight.found /\ Matched = <<>> /\ InsertedOne

\* C30 amended: without a call of another caller in between, the fallback
\* has updated at least one matching document or inserted exactly one; it
\* does not look again after findOne: when the documents are removed in
\* between it resolves with nothing updated or inserted, and when a
\* matching document is inserted in between it inserts as well.
C30_FallbackActsOnFindOne ==
    FallbackResolved =>
        /\ inflight.found => UpdatedMatched
        /\ inflight.found /\ Matched = <<>> => store = last.before
        /\ ~inflight.found => InsertedOne
        /\ inflight.others = 0 => (inflight.found <=> Matched # <<>>)

\* C30 witness: the documents findOne saw were removed before the
\* streaming pass: the upsert resolves and the store is as the remove left
\* it.
C30_Witness ==
    /\ FallbackResolved /\ inflight.found /\ inflight.others > 0
    /\ find(inflight.readStore, last.params.query, 1) # <<>>
    /\ Matched = <<>> /\ store = last.before

====
